---- MODULE Spec2Model ----
(***************************************************************************)
(* Model of radonpy (src/radonpy/__init__.py): the RD200 packet codecs,    *)
(* the packet registry, the request/response exchange of                   *)
(* RD200._request_packet, the log transfer of RD200.get_log and the        *)
(* mutators built on RD200._send_packet (Spec, FairSpec, SpecCodec);       *)
(* RD200.connect (SpecConnect), _register_packet (SpecRegistry) and two    *)
(* _request_packet calls that overlap (SpecOverlap).                       *)
(*                                                                         *)
(* Bytes are naturals 0..255, byte strings are sequences of bytes.  A      *)
(* decoded str is the sequence of its code points.  A float32 is carried   *)
(* as the 32-bit IEEE-754 pattern that struct packs and unpacks.  A 32-bit *)
(* value is carried as its two 16-bit halves [hi, lo], which keeps every   *)
(* number within TLC's 32-bit integers.  A float quotient is carried as    *)
(* the pair [num, den].                                                    *)
(***************************************************************************)
EXTENDS Integers, Sequences, FiniteSets, TLC

\* ------------------------------------------------------------------------
\* Enumerations
\* ------------------------------------------------------------------------

Command ==
  [ MEAS_QUERY                 |-> \H50,
    BLE_STATUS_QUERY           |-> \H51,
    BLE_RD200_DATE_TIME_SET    |-> \HA1,
    BLE_RD200_UNIT_SET         |-> \HA2,
    SN_QUERY                   |-> \HA4,
    SN_TYPE_QUERY              |-> \HA6,
    MODEL_NAME_RETURN          |-> \HA8,
    BLE_WARNING_SET            |-> \HAA,
    CONFIG_QUERY               |-> \HAC,
    OLED_QUERY                 |-> \HAD,
    BLE_VERSION_QUERY          |-> \HAF,
    MOD_CONFIG_QUERY           |-> \HB1,
    MOD_PROTECTION_RETURN      |-> \HB3,
    MOD_PROTECTION_QUERY       |-> \HB4,
    DISPLAY_CAL_FACTOR_QUERY   |-> \HBD,
    PRODUCT_PROCESS_MODE_QUERY |-> \HC1,
    EEPROM_LONG_DATA_CLEAR     |-> \HE0,
    EEPROM_LOG_INFO_QUERY      |-> \HE8,
    EEPROM_LOG_DATA_SEND       |-> \HE9 ]

\* The values of the Command members: Command(v) succeeds exactly on these.
CommandValues == {Command[n] : n \in DOMAIN Command}

Unit == [PCI_L |-> 0, BQ_M3 |-> 1]

AlarmInterval == [TEN_MINUTES |-> \H1, ONE_HOUR |-> \H6, SIX_HOURS |-> \H24]

\* IntEnum lookup by value, Enum(v): the member's name, or "ValueError".
EnumMember(enum, v) ==
  IF \E n \in DOMAIN enum : enum[n] = v
    THEN CHOOSE n \in DOMAIN enum : enum[n] = v
    ELSE "ValueError"

\* ------------------------------------------------------------------------
\* Results: a decoded packet or the exception raised
\* ------------------------------------------------------------------------

NoFields == [none |-> 0]

Packet(type, fields) ==
  [kind |-> "packet", type |-> type, fields |-> fields, error |-> "none"]

\* No outcome yet.
Pending ==
  [kind |-> "pending", type |-> "none", fields |-> NoFields, error |-> "none"]

Raise(error) ==
  [kind |-> "error", type |-> "none", fields |-> NoFields, error |-> error]

\* ------------------------------------------------------------------------
\* bytes, slices, struct and str.decode
\* ------------------------------------------------------------------------

Min(a, b) == IF a <= b THEN a ELSE b

Max(a, b) == IF a >= b THEN a ELSE b

\* Python's data[lo:hi] for 0 <= lo, 0 <= hi (0-based, hi exclusive, clipped).
Slice(data, lo, hi) == SubSeq(data, lo + 1, Min(hi, Len(data)))

\* int.from_bytes(data, byteorder="little")
RECURSIVE FromBytesLittle(_)
FromBytesLittle(data) ==
  IF data = <<>> THEN 0
  ELSE Head(data) + 256 * FromBytesLittle(Tail(data))

\* n.to_bytes(k, "little")
RECURSIVE ToBytesLittle(_, _)
ToBytesLittle(n, k) ==
  IF k = 0 THEN <<>>
  ELSE <<n % 256>> \o ToBytesLittle(n \div 256, k - 1)

\* struct format characters used by the packets: size in bytes.
FmtSize(c) ==
  CASE c \in {"B", "b"} -> 1
    [] c = "H" -> 2
    [] c \in {"I", "f"} -> 4

RECURSIVE CalcSize(_)
CalcSize(fmt) ==
  IF fmt = <<>> THEN 0 ELSE FmtSize(Head(fmt)) + CalcSize(Tail(fmt))

\* A little-endian 32-bit value, int.from_bytes(bytes, "little") of 4 bytes.
Word32(bytes) ==
  [hi |-> FromBytesLittle(SubSeq(bytes, 3, 4)),
   lo |-> FromBytesLittle(SubSeq(bytes, 1, 2))]

\* One little-endian field: unsigned for B, H, I; two's complement for b;
\* the IEEE-754 single bit pattern for f.
UnpackField(c, bytes) ==
  IF c \in {"I", "f"} THEN Word32(bytes)
  ELSE LET u == FromBytesLittle(bytes)
       IN  IF c = "b" /\ u >= 128 THEN u - 256 ELSE u

RECURSIVE UnpackFields(_, _)
UnpackFields(fmt, data) ==
  IF fmt = <<>> THEN <<>>
  ELSE LET n == FmtSize(Head(fmt))
       IN  <<UnpackField(Head(fmt), SubSeq(data, 1, n))>>
             \o UnpackFields(Tail(fmt), SubSeq(data, n + 1, Len(data)))

\* struct.unpack("<" + fmt, data): the tuple of fields, or struct.error when
\* the buffer is not exactly calcsize(fmt) bytes long.
StructUnpack(fmt, data) ==
  IF Len(data) # CalcSize(fmt)
    THEN [ok |-> FALSE, v |-> <<>>]
    ELSE [ok |-> TRUE, v |-> UnpackFields(fmt, data)]

\* struct.pack of one field with a value in range of its format.
PackField(c, v) ==
  IF c \in {"I", "f"}
    THEN ToBytesLittle(v.lo, 2) \o ToBytesLittle(v.hi, 2)
    ELSE ToBytesLittle(IF v < 0 THEN v + 256 ELSE v, FmtSize(c))

RECURSIVE PackFields(_, _)
PackFields(fmt, vals) ==
  IF fmt = <<>> THEN <<>>
  ELSE PackField(Head(fmt), Head(vals)) \o PackFields(Tail(fmt), Tail(vals))

\* Continuation byte of a UTF-8 sequence.
IsCont(b) == b >= \H80 /\ b <= \HBF

\* bytes.decode("utf-8"), strict: the code points, or UnicodeDecodeError on
\* a stray continuation byte, an overlong form, a surrogate, a value above
\* U+10FFFF or a truncated sequence.  A leading run of ASCII bytes decodes
\* to itself in one step; a multi-byte sequence is decoded on its own.
RECURSIVE Utf8Decode(_)
Utf8Decode(data) ==
  IF data = <<>> THEN [ok |-> TRUE, s |-> <<>>]
  ELSE
    LET b0 == data[1]
        n  == Len(data)
        high == {i \in 1..n : data[i] >= \H80}
        \* number of leading ASCII bytes
        run == IF high = {} THEN n
               ELSE (CHOOSE i \in high : \A j \in high : i <= j) - 1
        \* length of the sequence b0 leads, 0 when b0 cannot lead one
        k  == IF b0 < \H80 THEN run
              ELSE IF b0 >= \HC2 /\ b0 <= \HDF THEN 2
              ELSE IF b0 >= \HE0 /\ b0 <= \HEF THEN 3
              ELSE IF b0 >= \HF0 /\ b0 <= \HF4 THEN 4
              ELSE 0
        lo2 == IF b0 = \HE0 THEN \HA0 ELSE IF b0 = \HF0 THEN \H90 ELSE \H80
        hi2 == IF b0 = \HED THEN \H9F ELSE IF b0 = \HF4 THEN \H8F ELSE \HBF
        wellFormed ==
          \/ b0 < \H80
          \/ /\ k > 0
             /\ n >= k
             /\ data[2] >= lo2 /\ data[2] <= hi2
             /\ k >= 3 => IsCont(data[3])
             /\ k >= 4 => IsCont(data[4])
        cps == IF b0 < \H80 THEN SubSeq(data, 1, run)
               ELSE IF k = 2
                 THEN <<(b0 - \HC0) * 64 + (data[2] - \H80)>>
               ELSE IF k = 3
                 THEN <<(b0 - \HE0) * 4096 + (data[2] - \H80) * 64
                          + (data[3] - \H80)>>
               ELSE <<(b0 - \HF0) * 262144 + (data[2] - \H80) * 4096
                        + (data[3] - \H80) * 64 + (data[4] - \H80)>>
    IN  IF ~wellFormed THEN [ok |-> FALSE, s |-> <<>>]
        ELSE LET rest == Utf8Decode(SubSeq(data, k + 1, n))
             IN  IF rest.ok THEN [ok |-> TRUE, s |-> cps \o rest.s]
                 ELSE rest

\* ------------------------------------------------------------------------
\* Received packets: RECV_COMMAND and unpack of each RecvPacket class
\* ------------------------------------------------------------------------

\* Python's str of decoded bytes, or UnicodeDecodeError.
DecodeError == Raise("UnicodeDecodeError")

StructError == Raise("struct.error")

MeasurementUnpack(data) ==
  LET u == StructUnpack(<<"f", "f", "f", "H", "H">>, data)
  IN  IF ~u.ok THEN StructError
      ELSE Packet("Measurement",
                  [read_value |-> u.v[1], day_value |-> u.v[2],
                   month_value |-> u.v[3], pulse_count |-> u.v[4],
                   pulse_count_10_min |-> u.v[5]])

StatusUnpack(data) ==
  LET u == StructUnpack(<<"B", "B", "I", "I", "f">>, data)
  IN  IF ~u.ok THEN StructError
      ELSE Packet("Status",
                  [device_status |-> u.v[1], vib_status |-> u.v[2],
                   proc_time |-> u.v[3], dc_value |-> u.v[4],
                   peak_value |-> u.v[5]])

SerialUnpack(data) ==
  LET date   == Utf8Decode(Slice(data, 0, 8))
      serial == Utf8Decode(Slice(data, 8, Len(data)))
  IN  IF ~date.ok \/ ~serial.ok THEN DecodeError
      ELSE Packet("Serial", [date |-> date.s, serial |-> serial.s])

SNTypeUnpack(data) ==
  LET type == Utf8Decode(Slice(data, 0, 3))
  IN  IF ~type.ok THEN DecodeError
      ELSE Packet("SNType", [type |-> type.s])

ModelNameUnpack(data) ==
  IF Len(data) = 0 THEN Raise("IndexError")
  ELSE LET name == Utf8Decode(Slice(data, 1, Len(data)))
       IN  IF ~name.ok THEN DecodeError
           ELSE Packet("ModelName", [val |-> data[1], name |-> name.s])

\* A Config.unpack that keeps the raw bytes instead of looking the members up.
ConfigUnpack_RawEnums(data) ==
  LET u == StructUnpack(<<"B", "B", "f", "B">>, data)
  IN  IF ~u.ok THEN StructError
      ELSE Packet("Config",
                  [unit |-> u.v[1], alarm_status |-> u.v[2],
                   alarm_value |-> u.v[3], alarm_interval |-> u.v[4]])

ConfigUnpack(data) ==
  LET u == StructUnpack(<<"B", "B", "f", "B">>, data)
  IN  IF ~u.ok THEN StructError
      ELSE LET unit     == EnumMember(Unit, u.v[1])
               interval == EnumMember(AlarmInterval, u.v[4])
           IN  IF unit = "ValueError" \/ interval = "ValueError"
                 THEN Raise("ValueError")
                 ELSE Packet("Config",
                             [unit |-> unit, alarm_status |-> u.v[2],
                              alarm_value |-> u.v[3],
                              alarm_interval |-> interval])

OLEDConfigUnpack(data) ==
  LET u == StructUnpack(<<"I">>, data)
  IN  IF ~u.ok THEN StructError
      ELSE Packet("OLEDConfig", [value |-> u.v[1]])

\* A decode that takes the whole payload as the version.
FirmwareInfoUnpack_WholeVersion(data) ==
  LET version == Utf8Decode(data)
      status  == IF Len(data) >= 64 + 4
                   THEN Word32(Slice(data, 64, 64 + 4))
                   ELSE Word32(<<0, 0, 0, 0>>)
  IN  IF ~version.ok THEN DecodeError
      ELSE Packet("FirmwareInfo", [version |-> version.s, status |-> status])

FirmwareInfoUnpack(data) ==
  LET version == Utf8Decode(Slice(data, 0, 64))
      status  == IF Len(data) >= 64 + 4
                   THEN Word32(Slice(data, 64, 64 + 4))
                   ELSE Word32(<<0, 0, 0, 0>>)
  IN  IF ~version.ok THEN DecodeError
      ELSE Packet("FirmwareInfo", [version |-> version.s, status |-> status])

ModuleConfigUnpack(data) ==
  LET u == StructUnpack(<<"B", "I", "I", "f">>, data)
  IN  IF ~u.ok THEN StructError
      ELSE Packet("ModuleConfig",
                  [device_type |-> u.v[1], sn_date |-> u.v[2],
                   sn_no |-> u.v[3], factor |-> u.v[4]])

ModuleProtectionUnpack(data) ==
  LET u == StructUnpack(<<"I", "I">>, data)
  IN  IF ~u.ok THEN StructError
      ELSE Packet("ModuleProtection",
                  [protection_status |-> u.v[1], operation_status |-> u.v[2]])

DisplayCalFactorUnpack(data) ==
  LET u == StructUnpack(<<"f">>, data)
  IN  IF ~u.ok THEN StructError
      ELSE Packet("DisplayCalFactor", [factor |-> u.v[1]])

ProductProcessModeUnpack(data) ==
  LET u == StructUnpack(<<"B", "B", "H">>, data)
  IN  IF ~u.ok THEN StructError
      ELSE Packet("ProductProcessMode",
                  [on_off |-> u.v[1], time_hour |-> u.v[2], bq |-> u.v[3]])

LogInfoUnpack(data) ==
  LET u == StructUnpack(<<"H", "b">>, Slice(data, 0, 3))
  IN  IF ~u.ok THEN StructError
      ELSE Packet("LogInfo", [data_no |-> u.v[1], checksum |-> u.v[2]])

\* The RecvPacket subclasses, in the order the module defines them.
RecvPacketTypes ==
  << "Measurement", "Status", "Serial", "SNType", "ModelName", "Config",
     "OLEDConfig", "FirmwareInfo", "ModuleConfig", "ModuleProtection",
     "DisplayCalFactor", "ProductProcessMode", "LogInfo" >>

RecvTypeSet == {RecvPacketTypes[i] : i \in DOMAIN RecvPacketTypes}

RECV_COMMAND ==
  [ Measurement        |-> Command.MEAS_QUERY,
    Status             |-> Command.BLE_STATUS_QUERY,
    Serial             |-> Command.SN_QUERY,
    SNType             |-> Command.SN_TYPE_QUERY,
    ModelName          |-> Command.MODEL_NAME_RETURN,
    Config             |-> Command.CONFIG_QUERY,
    OLEDConfig         |-> Command.OLED_QUERY,
    FirmwareInfo       |-> Command.BLE_VERSION_QUERY,
    ModuleConfig       |-> Command.MOD_CONFIG_QUERY,
    ModuleProtection   |-> Command.MOD_PROTECTION_RETURN,
    DisplayCalFactor   |-> Command.DISPLAY_CAL_FACTOR_QUERY,
    ProductProcessMode |-> Command.PRODUCT_PROCESS_MODE_QUERY,
    LogInfo            |-> Command.EEPROM_LOG_INFO_QUERY ]

\* packet_type.unpack(data)
Unpack(type, data) ==
  CASE type = "Measurement"        -> MeasurementUnpack(data)
    [] type = "Status"             -> StatusUnpack(data)
    [] type = "Serial"             -> SerialUnpack(data)
    [] type = "SNType"             -> SNTypeUnpack(data)
    [] type = "ModelName"          -> ModelNameUnpack(data)
    [] type = "Config"             -> ConfigUnpack(data)
    [] type = "OLEDConfig"         -> OLEDConfigUnpack(data)
    [] type = "FirmwareInfo"       -> FirmwareInfoUnpack(data)
    [] type = "ModuleConfig"       -> ModuleConfigUnpack(data)
    [] type = "ModuleProtection"   -> ModuleProtectionUnpack(data)
    [] type = "DisplayCalFactor"   -> DisplayCalFactorUnpack(data)
    [] type = "ProductProcessMode" -> ProductProcessModeUnpack(data)
    [] type = "LogInfo"            -> LogInfoUnpack(data)

\* ------------------------------------------------------------------------
\* Packet registry
\* ------------------------------------------------------------------------

\* _PACKET_DATABASE[packet_type.RECV_COMMAND] = packet_type
register_packet(database, packet_type) ==
  [c \in DOMAIN database \cup {RECV_COMMAND[packet_type]} |->
     IF c = RECV_COMMAND[packet_type] THEN packet_type ELSE database[c]]

RECURSIVE RegisterAll(_, _)
RegisterAll(database, types) ==
  IF types = <<>> THEN database
  ELSE RegisterAll(register_packet(database, Head(types)), Tail(types))

\* The registry after the module has been imported: dict(), then one
\* _register_packet call after each class.
PACKET_DATABASE == RegisterAll(<<>>, RecvPacketTypes)

\* A lookup that falls back to a default type instead of raising.
LookupPacketType_Default(command) ==
  IF command \in CommandValues /\ command \in DOMAIN PACKET_DATABASE
    THEN PACKET_DATABASE[command]
    ELSE "Measurement"

\* _PACKET_DATABASE[Command(command)]: the registered type, ValueError when
\* command is no Command member, KeyError when the member has no entry.
LookupPacketType(command) ==
  IF command \notin CommandValues THEN "ValueError"
  ELSE IF command \notin DOMAIN PACKET_DATABASE THEN "KeyError"
  ELSE PACKET_DATABASE[command]

\* RD200._parse_packet(buffer, packet_type); packet_type "None" when omitted.
parse_packet(buffer, packet_type) ==
  IF Len(buffer) < 2 THEN Raise("IndexError")
  ELSE
    LET command == buffer[1]
        length  == buffer[2]
        data    == Slice(buffer, 2, 2 + length)
    IN  IF packet_type # "None"
          THEN IF RECV_COMMAND[packet_type] # command
                 THEN Raise("TypeError")
                 ELSE Unpack(packet_type, data)
          ELSE LET resolved == LookupPacketType(command)
               IN  IF resolved \in {"ValueError", "KeyError"}
                     THEN Raise(resolved)
                     ELSE Unpack(resolved, data)

\* ------------------------------------------------------------------------
\* Sent packets: SEND_COMMAND and pack of each SendPacket class
\* ------------------------------------------------------------------------

DateTimeSet(year, month, day, hour, minute, second) ==
  [type |-> "DateTimeSet",
   fields |-> [year |-> year, month |-> month, day |-> day,
               hour |-> hour, minute |-> minute, second |-> second]]

UnitSet(unit) == [type |-> "UnitSet", fields |-> [unit |-> unit]]

AlarmSet(status, value, interval) ==
  [type |-> "AlarmSet",
   fields |-> [status |-> status, value |-> value, interval |-> interval]]

SEND_COMMAND ==
  [ DateTimeSet |-> Command.BLE_RD200_DATE_TIME_SET,
    UnitSet     |-> Command.BLE_RD200_UNIT_SET,
    AlarmSet    |-> Command.BLE_WARNING_SET ]

\* bytes((year, month, day, hour, minute, second))
DateTimeSetPack(f) ==
  <<f.year, f.month, f.day, f.hour, f.minute, f.second>>

\* bytes((unit,)), unit a Unit member
UnitSetPack(f) == <<Unit[f.unit]>>

\* struct.pack("<BfB", status, value, interval)
AlarmSetPack(f) ==
  PackFields(<<"B", "f", "B">>, <<f.status, f.value, f.interval>>)

\* packet.pack()
Pack(packet) ==
  CASE packet.type = "DateTimeSet" -> DateTimeSetPack(packet.fields)
    [] packet.type = "UnitSet"     -> UnitSetPack(packet.fields)
    [] packet.type = "AlarmSet"    -> AlarmSetPack(packet.fields)

\* ------------------------------------------------------------------------
\* Frames written to the control characteristic
\* ------------------------------------------------------------------------

\* RD200._send_command: buffer = bytearray((command,))
send_command_buffer(command) == <<command>>

\* A _send_packet that leaves the length byte out.
send_packet_buffer_NoLength(packet) ==
  <<SEND_COMMAND[packet.type]>> \o Pack(packet)

\* RD200._send_packet: the command, len(data), then data
send_packet_buffer(packet) ==
  LET data == Pack(packet)
  IN  <<SEND_COMMAND[packet.type]>> \o <<Len(data)>> \o data

\* ------------------------------------------------------------------------
\* asyncio.Future and the callback of _request_packet
\* ------------------------------------------------------------------------

NewFuture == [state |-> "pending", data |-> <<>>]

NoFuture == [state |-> "none", data |-> <<>>]

\* Future.done(): a result was set or the future was cancelled.
FutureDone(future) == future.state \in {"result", "cancelled"}

\* A callback that sets the result without asking whether the future is
\* done, as the callback of _recv_packet does.
meas_callback_Unguarded(future, data) ==
  IF ~FutureDone(future)
    THEN [future |-> [state |-> "result", data |-> data],
          warned |-> FALSE, raised |-> FALSE]
    ELSE [future |-> future, warned |-> FALSE, raised |-> TRUE]

\* RD200._request_packet.meas_callback(_sender, data): the future after the
\* call, whether a warning was logged, and whether the callback raised
\* (Future.set_result raises InvalidStateError on a future that is done).
meas_callback(future, data) ==
  IF ~FutureDone(future)
    THEN [future |-> [state |-> "result", data |-> data],
          warned |-> FALSE, raised |-> FALSE]
    ELSE [future |-> future, warned |-> TRUE, raised |-> FALSE]

\* ------------------------------------------------------------------------
\* The log buffer of get_log
\* ------------------------------------------------------------------------

\* Python's a / b on floats, kept exact.
Quotient(a, b) == [num |-> a, den |-> b]

\* RD200.get_log.log_data_callback(_sender, data): the buffer and the event.
log_data_callback(log_buffer, log_buffer_len, log_buffer_done, data) ==
  LET extended == log_buffer \o data
  IN  [log_buffer |-> extended,
       log_buffer_done |-> log_buffer_done \/ Len(extended) >= log_buffer_len]

\* A reading taken one byte late.
log_point_Shifted(log_buffer, i) ==
  Quotient(FromBytesLittle(Slice(log_buffer, i * 2 + 1, i * 2 + 3)), 100)

\* One reading of the loop at the end of get_log, i counted from 0.
log_point(log_buffer, i) ==
  Quotient(FromBytesLittle(Slice(log_buffer, i * 2, i * 2 + 2)), 100)

\* The loop at the end of get_log: log_data for range(data_no).
log_data(log_buffer, data_no) ==
  [i \in 1..data_no |-> log_point(log_buffer, i - 1)]

\* ------------------------------------------------------------------------
\* Outcomes of a call
\* ------------------------------------------------------------------------

\* A value other than a packet: an attribute of one, a list, or None.
Value(type, v) ==
  [kind |-> "value", type |-> type, fields |-> [value |-> v], error |-> "none"]

ReturnNone == Value("None", 0)

\* packet.name on the outcome of a request: AttributeError when the packet
\* that came back has no such attribute.
GetAttr(packet, name) ==
  IF name \in DOMAIN packet.fields
    THEN Value("attr", packet.fields[name])
    ELSE Raise("AttributeError")

\* The properties of RD200 that await one _request_packet: the command, the
\* response_type, and the attribute taken from the packet ("None": the
\* packet itself).  None of them passes a timeout.
Accessors ==
  [ measurement |->
      [command |-> Command.MEAS_QUERY, type |-> "Measurement", attr |-> "None"],
    status |->
      [command |-> Command.BLE_STATUS_QUERY, type |-> "Status", attr |-> "None"],
    unit |->
      [command |-> Command.CONFIG_QUERY, type |-> "Config", attr |-> "unit"],
    alarm_status |->
      [command |-> Command.CONFIG_QUERY, type |-> "Config",
       attr |-> "alarm_status"],
    alarm_value |->
      [command |-> Command.CONFIG_QUERY, type |-> "Config",
       attr |-> "alarm_value"],
    alarm_interval |->
      [command |-> Command.CONFIG_QUERY, type |-> "Config",
       attr |-> "alarm_interval"],
    config |->
      [command |-> Command.CONFIG_QUERY, type |-> "Config", attr |-> "None"],
    serial |->
      [command |-> Command.SN_QUERY, type |-> "Serial", attr |-> "None"],
    serial_type |->
      [command |-> Command.SN_TYPE_QUERY, type |-> "SNType", attr |-> "type"],
    model_name |->
      [command |-> Command.MODEL_NAME_RETURN, type |-> "ModelName",
       attr |-> "name"],
    firmware_info |->
      [command |-> Command.BLE_VERSION_QUERY, type |-> "FirmwareInfo",
       attr |-> "None"],
    module_config |->
      [command |-> Command.MOD_CONFIG_QUERY, type |-> "ModuleConfig",
       attr |-> "None"],
    module_protection |->
      [command |-> Command.MOD_PROTECTION_QUERY, type |-> "ModuleProtection",
       attr |-> "None"],
    calibration_factor |->
      [command |-> Command.DISPLAY_CAL_FACTOR_QUERY,
       type |-> "DisplayCalFactor", attr |-> "factor"],
    product_process_mode |->
      [command |-> Command.PRODUCT_PROCESS_MODE_QUERY,
       type |-> "ProductProcessMode", attr |-> "None"],
    log_info |->
      [command |-> Command.EEPROM_LOG_INFO_QUERY, type |-> "LogInfo",
       attr |-> "None"] ]

\* self._parse_packet(buffer) at the end of _request_packet: response_type
\* is not handed on.
request_parse(buffer, response_type) == parse_packet(buffer, "None")

\* ------------------------------------------------------------------------
\* State
\* ------------------------------------------------------------------------

VARIABLES
  parse_buffer,    \* _parse_packet: the buffer argument
  parse_type,      \* _parse_packet: the packet_type argument, "None" if omitted
  parse_result,    \* _parse_packet: Pending, then the packet or the error
  pc,              \* the caller's coroutine: "idle", the await it is
                   \*   suspended in, or "done" / "failed"
  op,              \* the public method or property being awaited
  args,            \* alarm's arguments enabled, value, interval
  req,             \* _request_packet's command, response_type, timeout
  send,            \* the SendPacket handed to _send_packet
  recv_future,     \* _request_packet's recv_future
  buffer,          \* _request_packet's buffer, once wait_for has returned
  exc,             \* the exception travelling through _request_packet's finally
  log_info,        \* get_log's log_info
  log_buffer_len,  \* get_log's log_buffer_len
  log_buffer,      \* get_log's log_buffer
  log_buffer_done, \* get_log's log_buffer_done event
  result,          \* what the call returned or raised
  connected,       \* the link to the device is up
  meas_notify,     \* the listener on the measurement characteristic: "none",
                   \*   "armed" (by the exchange in progress), "stale" (left
                   \*   armed by an exchange that has ended)
  log_notify,      \* the listener on the log characteristic, likewise
  calls,           \* the transport calls the call in progress has made
  first_notify,    \* the first notification delivered during this exchange
  n_notify,        \* how many notifications were delivered during it
  warnings,        \* how many "received more than one response" warnings
  cb_raised,       \* a notification callback raised into the transport
  log_stream       \* every byte delivered on the log characteristic to this
                   \*   call's listener, in delivery order

codec_vars == <<parse_buffer, parse_type, parse_result>>

call_vars ==
  <<pc, op, args, req, send, recv_future, buffer, exc, log_info,
    log_buffer_len, log_buffer, log_buffer_done, result, calls,
    first_notify, n_notify, warnings, cb_raised, log_stream>>

link_vars == <<connected, meas_notify, log_notify>>

VARIABLES
  ctl,             \* self._ctl: "None", or the characteristic it was set to
  meas,            \* self._meas, likewise
  log,             \* self._log, likewise
  conn_pc,         \* the coroutine awaiting connect(): "idle", the await it
                   \*   is suspended in, or "done" / "failed"
  conn_before,     \* the three handles when connect() was called
  conn_result      \* what connect() returned or raised

connect_vars == <<ctl, meas, log, conn_pc, conn_before, conn_result>>

VARIABLES
  packet_database, \* _PACKET_DATABASE
  reg_type,        \* the packet_type of the last _register_packet call,
                   \*   "none" before the first
  reg_before,      \* _PACKET_DATABASE when that call was made
  reg_result       \* how that call ended: "returned" or "raised"

registry_vars == <<packet_database, reg_type, reg_before, reg_result>>

VARIABLES
  o_pc,            \* two overlapping _request_packet calls: where each is
  o_req,           \* its command and timeout
  o_future,        \* its recv_future
  o_buffer,        \* its buffer, once wait_for has returned
  o_exc,           \* the exception travelling through its finally clause
  o_result,        \* what it returned or raised
  o_from,          \* the call whose command the device was answering with
                   \*   the frame that resolved its recv_future, 0 if none
  meas_slot,       \* the call whose meas_callback the transport holds for
                   \*   the measurement characteristic, 0 if none
  inflight         \* the answers the device has yet to deliver, oldest first

overlap_vars ==
  <<o_pc, o_req, o_future, o_buffer, o_exc, o_result, o_from, meas_slot,
    inflight>>

\* The overlapping calls.
Callers == {1, 2}

\* Neither call has been made.
OverlapIdle ==
  /\ o_pc = [c \in Callers |-> "idle"]
  /\ o_req = [c \in Callers |-> [command |-> 0, timeout |-> "None"]]
  /\ o_future = [c \in Callers |-> NoFuture]
  /\ o_buffer = [c \in Callers |-> <<>>]
  /\ o_exc = [c \in Callers |-> "none"]
  /\ o_result = [c \in Callers |-> Pending]
  /\ o_from = [c \in Callers |-> 0]
  /\ meas_slot = 0
  /\ inflight = <<>>

\* What the calls on a connected RD200 and _parse_packet leave alone.
side_vars == <<connect_vars, registry_vars, overlap_vars>>

vars == <<codec_vars, call_vars, link_vars, side_vars>>

\* Optional[T]: None, or a value.
None == [some |-> FALSE]

Some(v) == [some |-> TRUE, v |-> v]

NoArgs == [enabled |-> None, value |-> None, interval |-> None]

NoRequest == [command |-> 0, response_type |-> "None", timeout |-> "None"]

NoPacket == [type |-> "none", fields |-> NoFields]

\* The caller is idle on a connected device whose three characteristics
\* were resolved; no listener is armed.
IdleCall ==
  /\ pc = "idle"
  /\ op = "none"
  /\ args = NoArgs
  /\ req = NoRequest
  /\ send = NoPacket
  /\ recv_future = NoFuture
  /\ buffer = <<>>
  /\ exc = "none"
  /\ log_info = Pending
  /\ log_buffer_len = 0
  /\ log_buffer = <<>>
  /\ log_buffer_done = FALSE
  /\ result = Pending
  /\ calls = <<>>
  /\ first_notify = <<>>
  /\ n_notify = 0
  /\ warnings = 0
  /\ cb_raised = FALSE
  /\ log_stream = <<>>

LinkInit ==
  /\ connected = TRUE
  /\ meas_notify = "none"
  /\ log_notify = "none"

\* connect() has returned True and resolved the three characteristics;
\* the registry is as the import of the module left it.
SideInit ==
  /\ ctl = "ctl"
  /\ meas = "meas"
  /\ log = "log"
  /\ conn_pc = "idle"
  /\ conn_before = [c \in {"ctl", "meas", "log"} |-> "None"]
  /\ conn_result = "none"
  /\ packet_database = PACKET_DATABASE
  /\ reg_type = "none"
  /\ reg_before = <<>>
  /\ reg_result = "none"
  /\ OverlapIdle

\* ------------------------------------------------------------------------
\* The codec specification: _parse_packet applied to bounded inputs
\* ------------------------------------------------------------------------

\* Payloads of one repeated byte have every length up to MaxFill.
MaxFill == 17

\* Lengths around FirmwareInfo's 64-byte version and 4-byte status.
LongLens == {63, 64, 67, 68}

\* "2", and a byte that no UTF-8 sequence contains.
FillBytes == {\H32, \HFF}

FillPayloads ==
  {[i \in 1..n |-> b] : n \in (0..MaxFill) \cup LongLens, b \in FillBytes}

\* Config payloads: unit, alarm_status, alarm_value (float32, little-endian),
\* alarm_interval.
ConfigPayloads ==
  { <<u, 1, \H00, \H00, \H80, \H3F, i>> :
      u \in {0, 1, 2}, i \in {\H0, \H1, \H6, \H24, \H25} }

\* b"20230101ABC123  ", a LogInfo with two trailing bytes, and "é" alone.
SamplePayloads ==
  { << \H32, \H30, \H32, \H33, \H30, \H31, \H30, \H31,
       \H41, \H42, \H43, \H31, \H32, \H33, \H20, \H20 >>,
    << \H03, \H00, \HFE, \H00, \H00 >>,
    << \HC3, \HA9 >> }

\* FirmwareInfo payloads: "V1.2.6" padded with NUL to 64 bytes, followed by
\* nothing, by one to three bytes, by the status 01 02 03 04, and by the
\* status and one more byte; and 63 letters followed by "\u00e9", whose two
\* bytes C3 A9 fall on either side of byte 64, and three more bytes.
FirmwareVersion ==
  <<\H56, \H31, \H2E, \H32, \H2E, \H36>> \o [i \in 1..58 |-> 0]

FirmwarePayloads ==
  { FirmwareVersion \o SubSeq(<<1, 2, 3, 4, 5>>, 1, n) : n \in 0..5 } \cup
  { [i \in 1..63 |-> \H41] \o <<\HC3, \HA9, 1, 2, 3>> }

CodecPayloads ==
  FillPayloads \cup ConfigPayloads \cup SamplePayloads \cup FirmwarePayloads

\* Every Command member and two bytes that are no member.
CodecCodes == CommandValues \cup {\H00, \HFF}

\* The declared payload length: exact, one more than the bytes present, or
\* one less (a trailing byte after the payload).
DeclaredLengths(payload) ==
  {Len(payload), Len(payload) + 1} \cup
    (IF Len(payload) > 0 THEN {Len(payload) - 1} ELSE {})

CodecInit ==
  /\ parse_buffer \in
       { <<>>, <<Command.MEAS_QUERY>> } \cup
       UNION { { <<c, l>> \o p : l \in DeclaredLengths(p), c \in CodecCodes } :
               p \in CodecPayloads }
  /\ parse_type \in RecvTypeSet \cup {"None"}
  /\ parse_result = Pending
  /\ IdleCall
  /\ LinkInit
  /\ SideInit

\* One call of _parse_packet(buffer, packet_type).
ParsePacket ==
  /\ parse_result = Pending
  /\ parse_result' = parse_packet(parse_buffer, parse_type)
  /\ UNCHANGED <<parse_buffer, parse_type, call_vars, link_vars, side_vars>>

CodecNext == ParsePacket

SpecCodec == CodecInit /\ [][CodecNext]_vars

\* ------------------------------------------------------------------------
\* The protocol specification: calls on one RD200, one at a time
\* ------------------------------------------------------------------------

\* Readings a LogInfo may announce.
MaxDataNo == 3

\* Notifications delivered to the listener of one exchange.
MaxNotify == 2

\* Log bytes delivered during one get_log: one more than the largest
\* log_buffer_len.
LogCap == 2 * MaxDataNo + 1

\* What the device may send in one notification on the log characteristic:
\* pieces of the readings 1000, 2000, 100 (E8 03, D0 07, 64 00), cut on and
\* off the boundaries of a reading.
LogFragments ==
  { <<\HE8, \H03>>, <<\HD0, \H07>>, <<\H64, \H00>>,
    <<\HE8, \H03, \HD0>>, <<\H07, \H64, \H00>> }

\* 1.0 and 4.0 as float32
Float32Values == { [hi |-> \H3F80, lo |-> 0], [hi |-> \H4080, lo |-> 0] }

\* What the device may send on the measurement characteristic.
LogInfoFrames ==
  { <<Command.EEPROM_LOG_INFO_QUERY, 3, n, 0, \HFE>> : n \in 0..MaxDataNo }

DeviceFrames ==
  LogInfoFrames \cup
  { \* a Measurement: 1.0, 4.0, 1.0, 3, 1
    << Command.MEAS_QUERY, 16, 0, 0, \H80, \H3F, 0, 0, \H80, \H40,
       0, 0, \H80, \H3F, 3, 0, 1, 0 >>,
    \* Config(BQ_M3, 1, 1.0, ONE_HOUR)
    << Command.CONFIG_QUERY, 7, 1, 1, 0, 0, \H80, \H3F, 6 >>,
    \* Config(PCI_L, 2, 4.0, SIX_HOURS)
    << Command.CONFIG_QUERY, 7, 0, 2, 0, 0, \H80, \H40, \H24 >>,
    \* a Config whose unit is no Unit member
    << Command.CONFIG_QUERY, 7, 2, 0, 0, 0, \H80, \H3F, 1 >>,
    \* a Serial of four bytes, "2023"
    << Command.SN_QUERY, 4, \H32, \H30, \H32, \H33 >>,
    \* a ModelName, "RD"
    << Command.MODEL_NAME_RETURN, 3, 0, \H52, \H44 >>,
    \* a ModuleProtection under the code of the query
    << Command.MOD_PROTECTION_QUERY, 8, 1, 0, 0, 0, 0, 0, 0, 0 >>,
    \* a frame cut after its first byte
    << Command.MEAS_QUERY >> }

\* Arguments of the calls.
RequestCommands ==
  {Command.MEAS_QUERY, Command.CONFIG_QUERY, Command.MOD_PROTECTION_QUERY}

RequestTypes == {"None", "Measurement", "Config", "ModuleProtection"}

Timeouts == {"None", "finite"}

\* (year, month, day, hour, minute, second) of the dates set
DateTimes == { <<2023, 1, 1, 0, 0, 0>>, <<2099, 12, 31, 23, 59, 59>> }

AlarmEnabled == {None, Some(TRUE), Some(FALSE)}

AlarmValues == {None} \cup {Some(v) : v \in Float32Values}

AlarmIntervals == {None, Some("TEN_MINUTES"), Some("SIX_HOURS")}

Init ==
  /\ parse_buffer = <<>>
  /\ parse_type = "None"
  /\ parse_result = Pending
  /\ IdleCall
  /\ LinkInit
  /\ SideInit

\* One call of the transport made by the call in progress.
TransportCall(fn, char, frame, by, ok) ==
  [fn |-> fn, char |-> char, frame |-> frame, by |-> by, ok |-> ok]

\* A transport call succeeds only while the link is up, and may raise
\* at any time.
TransportOutcomes == IF connected THEN {TRUE, FALSE} ELSE {FALSE}

\* The call ends: it returns the outcome or raises it.
Finish(outcome) ==
  /\ pc' = IF outcome.kind = "error" THEN "failed" ELSE "done"
  /\ result' = outcome

\* _request_packet is entered: recv_future is created and start_notify on
\* the measurement characteristic is awaited.
BeginRequest(command, response_type, timeout) ==
  /\ req' = [command |-> command, response_type |-> response_type,
             timeout |-> timeout]
  /\ recv_future' = NewFuture
  /\ pc' = "rq_start_notify"

\* await one of the accessor properties
CallAccessor(a) ==
  /\ pc = "idle"
  /\ op' = a
  /\ BeginRequest(Accessors[a].command, Accessors[a].type, "None")
  /\ UNCHANGED <<args, send, buffer, exc, log_info, log_buffer_len,
                 log_buffer, log_buffer_done, result, calls, first_notify,
                 n_notify, warnings, cb_raised, log_stream>>
  /\ UNCHANGED <<side_vars, codec_vars, link_vars>>

\* await _request_packet(command, response_type, timeout)
CallRequestPacket(command, response_type, timeout) ==
  /\ pc = "idle"
  /\ op' = "_request_packet"
  /\ BeginRequest(command, response_type, timeout)
  /\ UNCHANGED <<args, send, buffer, exc, log_info, log_buffer_len,
                 log_buffer, log_buffer_done, result, calls, first_notify,
                 n_notify, warnings, cb_raised, log_stream>>
  /\ UNCHANGED <<side_vars, codec_vars, link_vars>>

\* await get_log(timeout) with a float timeout: it first awaits log_info
CallGetLog ==
  /\ pc = "idle"
  /\ op' = "get_log"
  /\ BeginRequest(Accessors.log_info.command, Accessors.log_info.type, "None")
  /\ UNCHANGED <<args, send, buffer, exc, log_info, log_buffer_len,
                 log_buffer, log_buffer_done, result, calls, first_notify,
                 n_notify, warnings, cb_raised, log_stream>>
  /\ UNCHANGED <<side_vars, codec_vars, link_vars>>

\* await set_date_time(date): the year is sent as its last two digits
CallSetDateTime(date) ==
  /\ pc = "idle"
  /\ op' = "set_date_time"
  /\ send' = DateTimeSet(date[1] % 100, date[2], date[3], date[4], date[5],
                         date[6])
  /\ pc' = "sp_write"
  /\ UNCHANGED <<args, req, recv_future, buffer, exc, log_info,
                 log_buffer_len, log_buffer, log_buffer_done, result, calls,
                 first_notify, n_notify, warnings, cb_raised, log_stream>>
  /\ UNCHANGED <<side_vars, codec_vars, link_vars>>

\* await set_unit(unit)
CallSetUnit(unit) ==
  /\ pc = "idle"
  /\ op' = "set_unit"
  /\ send' = UnitSet(unit)
  /\ pc' = "sp_write"
  /\ UNCHANGED <<args, req, recv_future, buffer, exc, log_info,
                 log_buffer_len, log_buffer, log_buffer_done, result, calls,
                 first_notify, n_notify, warnings, cb_raised, log_stream>>
  /\ UNCHANGED <<side_vars, codec_vars, link_vars>>

\* An alarm that always switches the alarm on, whatever enabled is.
AlarmPacket_AlwaysEnabled(enabled, value, interval) ==
  AlarmSet(1, value, AlarmInterval[interval])

\* AlarmSet(enabled, value, interval) as alarm builds it: a bool packs as 0
\* or 1, an AlarmInterval member as its value.
AlarmPacket(enabled, value, interval) ==
  AlarmSet(IF enabled THEN 1 ELSE 0, value, AlarmInterval[interval])

\* await alarm(enabled, value, interval): config is awaited first when an
\* argument is None
CallAlarm(enabled, value, interval) ==
  /\ pc = "idle"
  /\ op' = "alarm"
  /\ args' = [enabled |-> enabled, value |-> value, interval |-> interval]
  /\ IF ~enabled.some \/ ~value.some \/ ~interval.some
       THEN /\ BeginRequest(Accessors.config.command, Accessors.config.type,
                            "None")
            /\ UNCHANGED send
       ELSE /\ send' = AlarmPacket(enabled.v, value.v, interval.v)
            /\ pc' = "sp_write"
            /\ UNCHANGED <<req, recv_future>>
  /\ UNCHANGED <<buffer, exc, log_info, log_buffer_len, log_buffer,
                 log_buffer_done, result, calls, first_notify, n_notify,
                 warnings, cb_raised, log_stream>>
  /\ UNCHANGED <<side_vars, codec_vars, link_vars>>

\* An arming whose failure does not end the call: the write follows.
RqStartNotify_Continues ==
  /\ pc = "rq_start_notify"
  /\ \E ok \in TransportOutcomes :
       /\ calls' = Append(calls, TransportCall("start_notify", "meas", <<>>,
                                               "_request_packet", ok))
       /\ meas_notify' = IF ok THEN "armed" ELSE meas_notify
  /\ pc' = "rq_send_command"
  /\ UNCHANGED <<op, args, req, send, recv_future, buffer, exc, log_info,
                 log_buffer_len, log_buffer, log_buffer_done, result,
                 first_notify, n_notify, warnings, cb_raised, log_stream>>
  /\ UNCHANGED <<side_vars, codec_vars, connected, log_notify>>

\* start_notify(self._meas, meas_callback) returns or raises.  It is
\* awaited outside the try: when it raises, the call ends there.
RqStartNotify ==
  /\ pc = "rq_start_notify"
  /\ \E ok \in TransportOutcomes :
       /\ calls' = Append(calls, TransportCall("start_notify", "meas", <<>>,
                                               "_request_packet", ok))
       /\ IF ok
            THEN /\ meas_notify' = "armed"
                 /\ pc' = "rq_send_command"
                 /\ UNCHANGED result
            ELSE /\ Finish(Raise("BleakError"))
                 /\ UNCHANGED meas_notify
  /\ UNCHANGED <<op, args, req, send, recv_future, buffer, exc, log_info,
                 log_buffer_len, log_buffer, log_buffer_done, first_notify,
                 n_notify, warnings, cb_raised, log_stream>>
  /\ UNCHANGED <<side_vars, codec_vars, connected, log_notify>>

\* _send_command(command) returns, and wait_for is awaited; or it raises,
\* and the finally clause awaits stop_notify.
RqSendCommand ==
  /\ pc = "rq_send_command"
  /\ \E ok \in TransportOutcomes :
       /\ calls' = Append(calls, TransportCall("write_gatt_char", "ctl",
                                               send_command_buffer(req.command),
                                               "_send_command", ok))
       /\ IF ok
            THEN /\ pc' = "rq_wait_for"
                 /\ UNCHANGED exc
            ELSE /\ pc' = "rq_stop_notify"
                 /\ exc' = "BleakError"
  /\ UNCHANGED <<op, args, req, send, recv_future, buffer, log_info,
                 log_buffer_len, log_buffer, log_buffer_done, result,
                 first_notify, n_notify, warnings, cb_raised, log_stream>>
  /\ UNCHANGED <<side_vars, codec_vars, link_vars>>

\* wait_for(recv_future, timeout) returns the result of the future.
RqWaitFor ==
  /\ pc = "rq_wait_for"
  /\ recv_future.state = "result"
  /\ buffer' = recv_future.data
  /\ pc' = "rq_stop_notify"
  /\ UNCHANGED <<op, args, req, send, recv_future, exc, log_info,
                 log_buffer_len, log_buffer, log_buffer_done, result, calls,
                 first_notify, n_notify, warnings, cb_raised, log_stream>>
  /\ UNCHANGED <<side_vars, codec_vars, link_vars>>

\* A timeout that leaves _request_packet without running the finally clause.
RqTimeout_NoFinally ==
  /\ pc = "rq_wait_for"
  /\ req.timeout # "None"
  /\ recv_future.state = "pending"
  /\ recv_future' = [recv_future EXCEPT !.state = "cancelled"]
  /\ exc' = "TimeoutError"
  /\ Finish(Raise("TimeoutError"))
  /\ meas_notify' = "stale"
  /\ UNCHANGED <<op, args, req, send, buffer, log_info, log_buffer_len,
                 log_buffer, log_buffer_done, calls, first_notify,
                 n_notify, warnings, cb_raised, log_stream>>
  /\ UNCHANGED <<side_vars, codec_vars, connected, log_notify>>

\* A timeout after which the command is sent again.
RqTimeout_Retry ==
  /\ pc = "rq_wait_for"
  /\ req.timeout # "None"
  /\ recv_future.state = "pending"
  /\ pc' = "rq_send_command"
  /\ UNCHANGED <<op, args, req, send, recv_future, buffer, exc, log_info,
                 log_buffer_len, log_buffer, log_buffer_done, result, calls,
                 first_notify, n_notify, warnings, cb_raised, log_stream>>
  /\ UNCHANGED <<side_vars, codec_vars, link_vars>>

\* wait_for's deadline passes: it cancels the future and raises
\* TimeoutError.  With timeout None there is no deadline.
RqTimeout ==
  /\ pc = "rq_wait_for"
  /\ req.timeout # "None"
  /\ recv_future.state = "pending"
  /\ recv_future' = [recv_future EXCEPT !.state = "cancelled"]
  /\ exc' = "TimeoutError"
  /\ pc' = "rq_stop_notify"
  /\ UNCHANGED <<op, args, req, send, buffer, log_info, log_buffer_len,
                 log_buffer, log_buffer_done, result, calls, first_notify,
                 n_notify, warnings, cb_raised, log_stream>>
  /\ UNCHANGED <<side_vars, codec_vars, link_vars>>

\* What the caller of _request_packet does with the packet it returned.
AfterRequest(packet) ==
  IF packet.kind = "error"
    THEN /\ Finish(packet)
         /\ UNCHANGED <<send, log_info, log_buffer_len>>
  ELSE IF op = "_request_packet"
    THEN /\ Finish(packet)
         /\ UNCHANGED <<send, log_info, log_buffer_len>>
  ELSE IF op = "get_log"
    \* log_buffer_len = log_info.data_no * 2, then start_notify on the log
    \* characteristic is awaited
    THEN IF "data_no" \in DOMAIN packet.fields
           THEN /\ log_info' = packet
                /\ log_buffer_len' = packet.fields.data_no * 2
                /\ pc' = "gl_start_notify"
                /\ UNCHANGED <<send, result>>
           ELSE /\ Finish(Raise("AttributeError"))
                /\ UNCHANGED <<send, log_info, log_buffer_len>>
  ELSE IF op = "alarm"
    \* the arguments that are None are taken from config
    THEN IF {"alarm_status", "alarm_value", "alarm_interval"}
              \subseteq DOMAIN packet.fields
           THEN /\ send' = AlarmPacket(
                             IF args.enabled.some THEN args.enabled.v
                               ELSE packet.fields.alarm_status # 0,
                             IF args.value.some THEN args.value.v
                               ELSE packet.fields.alarm_value,
                             IF args.interval.some THEN args.interval.v
                               ELSE packet.fields.alarm_interval)
                /\ pc' = "sp_write"
                /\ UNCHANGED <<result, log_info, log_buffer_len>>
           ELSE /\ Finish(Raise("AttributeError"))
                /\ UNCHANGED <<send, log_info, log_buffer_len>>
  ELSE \* an accessor: the packet, or one attribute of it
       /\ Finish(IF Accessors[op].attr = "None" THEN packet
                 ELSE GetAttr(packet, Accessors[op].attr))
       /\ UNCHANGED <<send, log_info, log_buffer_len>>

\* A finally clause that lets the exception of stop_notify out.
RqStopNotify_Propagates ==
  /\ pc = "rq_stop_notify"
  /\ \E ok \in TransportOutcomes :
       /\ calls' = Append(calls, TransportCall("stop_notify", "meas", <<>>,
                                               "_request_packet", ok))
       /\ meas_notify' = IF ok THEN "none" ELSE "stale"
       /\ IF ~ok
            THEN /\ Finish(Raise("BleakError"))
                 /\ UNCHANGED <<send, log_info, log_buffer_len>>
          ELSE IF exc # "none"
            THEN /\ Finish(Raise(exc))
                 /\ UNCHANGED <<send, log_info, log_buffer_len>>
            ELSE AfterRequest(request_parse(buffer, req.response_type))
  /\ UNCHANGED <<op, args, req, recv_future, buffer, exc, log_buffer,
                 log_buffer_done, first_notify, n_notify, warnings,
                 cb_raised, log_stream>>
  /\ UNCHANGED <<side_vars, codec_vars, connected, log_notify>>

\* The finally clause: stop_notify(self._meas) returns or raises, and what
\* it raises is logged and dropped.  Then the exception of the try block
\* propagates, or the buffer is parsed and the packet returned.
RqStopNotify ==
  /\ pc = "rq_stop_notify"
  /\ \E ok \in TransportOutcomes :
       /\ calls' = Append(calls, TransportCall("stop_notify", "meas", <<>>,
                                               "_request_packet", ok))
       /\ meas_notify' = IF ok THEN "none" ELSE "stale"
  /\ IF exc # "none"
       THEN /\ Finish(Raise(exc))
            /\ UNCHANGED <<send, log_info, log_buffer_len>>
       ELSE AfterRequest(request_parse(buffer, req.response_type))
  /\ UNCHANGED <<op, args, req, recv_future, buffer, exc, log_buffer,
                 log_buffer_done, first_notify, n_notify, warnings,
                 cb_raised, log_stream>>
  /\ UNCHANGED <<side_vars, codec_vars, connected, log_notify>>

\* start_notify(self._log, log_data_callback) returns or raises.
GlStartNotify ==
  /\ pc = "gl_start_notify"
  /\ \E ok \in TransportOutcomes :
       /\ calls' = Append(calls, TransportCall("start_notify", "log", <<>>,
                                               "get_log", ok))
       /\ IF ok
            THEN /\ log_notify' = "armed"
                 /\ pc' = "gl_send_command"
                 /\ UNCHANGED result
            ELSE /\ Finish(Raise("BleakError"))
                 /\ UNCHANGED log_notify
  /\ UNCHANGED <<op, args, req, send, recv_future, buffer, exc, log_info,
                 log_buffer_len, log_buffer, log_buffer_done, first_notify,
                 n_notify, warnings, cb_raised, log_stream>>
  /\ UNCHANGED <<side_vars, codec_vars, connected, meas_notify>>

\* _send_command(EEPROM_LOG_DATA_SEND) returns, and wait_for is awaited; or
\* it raises, and get_log raises with it.
GlSendCommand ==
  /\ pc = "gl_send_command"
  /\ \E ok \in TransportOutcomes :
       /\ calls' = Append(calls,
                          TransportCall("write_gatt_char", "ctl",
                            send_command_buffer(Command.EEPROM_LOG_DATA_SEND),
                            "_send_command", ok))
       /\ IF ok
            THEN /\ pc' = "gl_wait_for"
                 /\ UNCHANGED <<result, log_notify>>
            ELSE /\ Finish(Raise("BleakError"))
                 /\ log_notify' = "stale"
  /\ UNCHANGED <<op, args, req, send, recv_future, buffer, exc, log_info,
                 log_buffer_len, log_buffer, log_buffer_done, first_notify,
                 n_notify, warnings, cb_raised, log_stream>>
  /\ UNCHANGED <<side_vars, codec_vars, connected, meas_notify>>

\* wait_for(log_buffer_done.wait(), timeout) returns: the event is set.
GlWaitFor ==
  /\ pc = "gl_wait_for"
  /\ log_buffer_done
  /\ pc' = "gl_stop_notify"
  /\ UNCHANGED <<op, args, req, send, recv_future, buffer, exc, log_info,
                 log_buffer_len, log_buffer, log_buffer_done, result, calls,
                 first_notify, n_notify, warnings, cb_raised, log_stream>>
  /\ UNCHANGED <<side_vars, codec_vars, link_vars>>

\* wait_for's deadline passes before the event is set: get_log raises
\* TimeoutError.
GlTimeout ==
  /\ pc = "gl_wait_for"
  /\ ~log_buffer_done
  /\ Finish(Raise("TimeoutError"))
  /\ log_notify' = "stale"
  /\ UNCHANGED <<op, args, req, send, recv_future, buffer, exc, log_info,
                 log_buffer_len, log_buffer, log_buffer_done, calls,
                 first_notify, n_notify, warnings, cb_raised, log_stream>>
  /\ UNCHANGED <<side_vars, codec_vars, connected, meas_notify>>

\* stop_notify(self._log) returns, and the buffer is decoded; or it raises,
\* and get_log raises with it.
GlStopNotify ==
  /\ pc = "gl_stop_notify"
  /\ \E ok \in TransportOutcomes :
       /\ calls' = Append(calls, TransportCall("stop_notify", "log", <<>>,
                                               "get_log", ok))
       /\ IF ok
            THEN /\ log_notify' = "none"
                 /\ Finish(Value("list",
                                 log_data(log_buffer, log_info.fields.data_no)))
            ELSE /\ Finish(Raise("BleakError"))
                 /\ log_notify' = "stale"
  /\ UNCHANGED <<op, args, req, send, recv_future, buffer, exc, log_info,
                 log_buffer_len, log_buffer, log_buffer_done, first_notify,
                 n_notify, warnings, cb_raised, log_stream>>
  /\ UNCHANGED <<side_vars, codec_vars, connected, meas_notify>>

\* _send_packet(packet): write_gatt_char returns or raises.
SpWrite ==
  /\ pc = "sp_write"
  /\ \E ok \in TransportOutcomes :
       /\ calls' = Append(calls, TransportCall("write_gatt_char", "ctl",
                                               send_packet_buffer(send),
                                               "_send_packet", ok))
       /\ Finish(IF ok THEN ReturnNone ELSE Raise("BleakError"))
  /\ UNCHANGED <<op, args, req, send, recv_future, buffer, exc, log_info,
                 log_buffer_len, log_buffer, log_buffer_done, first_notify,
                 n_notify, warnings, cb_raised, log_stream>>
  /\ UNCHANGED <<side_vars, codec_vars, link_vars>>

\* The caller has the outcome and is free to make the next call.  The
\* locals of the call are gone; a listener it left armed stays as it is.
Return ==
  /\ pc \in {"done", "failed"}
  /\ pc' = "idle"
  /\ op' = "none"
  /\ args' = NoArgs
  /\ req' = NoRequest
  /\ send' = NoPacket
  /\ recv_future' = NoFuture
  /\ buffer' = <<>>
  /\ exc' = "none"
  /\ log_info' = Pending
  /\ log_buffer_len' = 0
  /\ log_buffer' = <<>>
  /\ log_buffer_done' = FALSE
  /\ result' = Pending
  /\ calls' = <<>>
  /\ first_notify' = <<>>
  /\ n_notify' = 0
  /\ warnings' = 0
  /\ cb_raised' = FALSE
  /\ log_stream' = <<>>
  /\ UNCHANGED <<side_vars, codec_vars, link_vars>>

\* The device notifies on the measurement characteristic and the transport
\* runs meas_callback.  (A notification that reaches the callback of an
\* exchange that has ended changes nothing the program can see: there is
\* no step for it.)
MeasNotify(data) ==
  /\ connected
  /\ meas_notify = "armed"
  /\ n_notify < MaxNotify
  /\ LET r == meas_callback(recv_future, data)
     IN  /\ recv_future' = r.future
         /\ warnings' = IF r.warned THEN warnings + 1 ELSE warnings
         /\ cb_raised' = (cb_raised \/ r.raised)
  /\ first_notify' = IF n_notify = 0 THEN data ELSE first_notify
  /\ n_notify' = n_notify + 1
  /\ UNCHANGED <<pc, op, args, req, send, buffer, exc, log_info,
                 log_buffer_len, log_buffer, log_buffer_done, result, calls,
                 log_stream>>
  /\ UNCHANGED <<side_vars, codec_vars, link_vars>>

\* The device notifies on the log characteristic and the transport runs
\* log_data_callback.
LogNotify(data) ==
  /\ connected
  /\ log_notify = "armed"
  /\ Len(log_stream) + Len(data) <= LogCap
  /\ LET r == log_data_callback(log_buffer, log_buffer_len, log_buffer_done,
                                data)
     IN  /\ log_buffer' = r.log_buffer
         /\ log_buffer_done' = r.log_buffer_done
  /\ log_stream' = log_stream \o data
  /\ UNCHANGED <<pc, op, args, req, send, recv_future, buffer, exc, log_info,
                 log_buffer_len, result, calls, first_notify, n_notify,
                 warnings, cb_raised>>
  /\ UNCHANGED <<side_vars, codec_vars, link_vars>>

\* The link drops.
Disconnect ==
  /\ connected
  /\ connected' = FALSE
  /\ UNCHANGED <<side_vars, codec_vars, call_vars, meas_notify, log_notify>>

\* The steps the event loop takes for the caller's coroutine.
Step ==
  \/ RqStartNotify
  \/ RqSendCommand
  \/ RqWaitFor
  \/ RqTimeout
  \/ RqStopNotify
  \/ GlStartNotify
  \/ GlSendCommand
  \/ GlWaitFor
  \/ GlTimeout
  \/ GlStopNotify
  \/ SpWrite

Next ==
  \/ \E a \in DOMAIN Accessors : CallAccessor(a)
  \/ \E c \in RequestCommands, t \in RequestTypes, tmo \in Timeouts :
       CallRequestPacket(c, t, tmo)
  \/ CallGetLog
  \/ \E date \in DateTimes : CallSetDateTime(date)
  \/ \E unit \in DOMAIN Unit : CallSetUnit(unit)
  \/ \E e \in AlarmEnabled, v \in AlarmValues, i \in AlarmIntervals :
       CallAlarm(e, v, i)
  \/ Step
  \/ Return
  \/ \E data \in DeviceFrames : MeasNotify(data)
  \/ \E data \in LogFragments : LogNotify(data)
  \/ Disconnect

Spec == Init /\ [][Next]_vars

\* The event loop runs a coroutine that can run; the device and the caller
\* owe nothing.
FairSpec == Spec /\ WF_vars(Step)

\* ------------------------------------------------------------------------
\* The connect specification: connect() on one RD200
\* ------------------------------------------------------------------------

\* The UUIDs connect resolves, by the attribute each is stored in.
Characteristics == {"ctl", "meas", "log"}

NoHandles == [c \in Characteristics |-> "None"]

\* self._ctl, self._meas, self._log
Handles == [c \in Characteristics |->
              CASE c = "ctl" -> ctl [] c = "meas" -> meas [] c = "log" -> log]

\* What get_services().get_service(LBS_UUID_SERVICE) may return: None, or
\* the service with some of its characteristics.
Services ==
  {[found |-> FALSE, chars |-> {}]} \cup
  {[found |-> TRUE, chars |-> chars] : chars \in SUBSET Characteristics}

\* service.get_characteristic(uuid): the characteristic, or None when the
\* service has none of that UUID.
get_characteristic(service, c) ==
  IF c \in service.chars THEN c ELSE "None"

\* What device.connect() and get_services() may do.
ConnectOutcomes == {"True", "False", "BleakError"}

\* After __init__: the client is not connected and the handles are None.
ConnectInit ==
  /\ parse_buffer = <<>>
  /\ parse_type = "None"
  /\ parse_result = Pending
  /\ IdleCall
  /\ connected = FALSE
  /\ meas_notify = "none"
  /\ log_notify = "none"
  /\ ctl = "None"
  /\ meas = "None"
  /\ log = "None"
  /\ conn_pc = "idle"
  /\ conn_before = NoHandles
  /\ conn_result = "none"
  /\ packet_database = PACKET_DATABASE
  /\ reg_type = "none"
  /\ reg_before = <<>>
  /\ reg_result = "none"
  /\ OverlapIdle

\* await connect(): device.connect() is awaited
CallConnect ==
  /\ conn_pc = "idle"
  /\ conn_pc' = "cn_connect"
  /\ conn_before' = Handles
  /\ UNCHANGED <<ctl, meas, log, conn_result>>
  /\ UNCHANGED <<registry_vars, overlap_vars, codec_vars, call_vars, link_vars>>

\* device.connect() returns True, and get_services() is awaited; or it
\* returns False, and connect returns False; or it raises.
CnConnect ==
  /\ conn_pc = "cn_connect"
  /\ \E outcome \in ConnectOutcomes :
       CASE outcome = "True" ->
              /\ connected' = TRUE
              /\ conn_pc' = "cn_get_services"
              /\ UNCHANGED conn_result
         [] outcome = "False" ->
              /\ conn_pc' = "done"
              /\ conn_result' = "False"
              /\ UNCHANGED connected
         [] outcome = "BleakError" ->
              /\ conn_pc' = "failed"
              /\ conn_result' = "BleakError"
              /\ UNCHANGED connected
  /\ UNCHANGED <<ctl, meas, log, conn_before>>
  /\ UNCHANGED <<registry_vars, overlap_vars, codec_vars, call_vars,
                 meas_notify, log_notify>>

\* get_services() returns or raises.  get_service returns the service or
\* None; get_characteristic on None raises AttributeError, on a service it
\* returns the characteristic or None.  The three handles are assigned in
\* turn and connect returns True.
CnGetServices ==
  /\ conn_pc = "cn_get_services"
  /\ \/ /\ conn_pc' = "failed"
        /\ conn_result' = "BleakError"
        /\ UNCHANGED <<ctl, meas, log>>
     \/ \E service \in Services :
          IF ~service.found
            THEN /\ conn_pc' = "failed"
                 /\ conn_result' = "AttributeError"
                 /\ UNCHANGED <<ctl, meas, log>>
            ELSE /\ ctl' = get_characteristic(service, "ctl")
                 /\ meas' = get_characteristic(service, "meas")
                 /\ log' = get_characteristic(service, "log")
                 /\ conn_pc' = "done"
                 /\ conn_result' = "True"
  /\ UNCHANGED conn_before
  /\ UNCHANGED <<registry_vars, overlap_vars, codec_vars, call_vars, link_vars>>

\* The caller has the outcome of connect() and may call it again.
ConnectReturn ==
  /\ conn_pc \in {"done", "failed"}
  /\ conn_pc' = "idle"
  /\ conn_result' = "none"
  /\ conn_before' = NoHandles
  /\ UNCHANGED <<ctl, meas, log>>
  /\ UNCHANGED <<registry_vars, overlap_vars, codec_vars, call_vars, link_vars>>

\* The link drops, or disconnect() is awaited.
ConnectDisconnect ==
  /\ connected
  /\ connected' = FALSE
  /\ UNCHANGED <<connect_vars, registry_vars, overlap_vars, codec_vars,
                 call_vars, meas_notify, log_notify>>

ConnectNext ==
  \/ CallConnect
  \/ CnConnect
  \/ CnGetServices
  \/ ConnectReturn
  \/ ConnectDisconnect

SpecConnect == ConnectInit /\ [][ConnectNext]_vars

\* ------------------------------------------------------------------------
\* The registry specification: _register_packet on _PACKET_DATABASE
\* ------------------------------------------------------------------------

\* The classes handed to _register_packet.
RegistryTypes == {"Measurement", "Status", "Serial", "Config", "LogInfo"}

\* _PACKET_DATABASE = dict(): the registry before the first registration.
RegistryInit ==
  /\ parse_buffer = <<>>
  /\ parse_type = "None"
  /\ parse_result = Pending
  /\ IdleCall
  /\ LinkInit
  /\ ctl = "ctl"
  /\ meas = "meas"
  /\ log = "log"
  /\ conn_pc = "idle"
  /\ conn_before = [c \in {"ctl", "meas", "log"} |-> "None"]
  /\ conn_result = "none"
  /\ packet_database = <<>>
  /\ reg_type = "none"
  /\ reg_before = <<>>
  /\ reg_result = "none"
  /\ OverlapIdle

\* _register_packet(packet_type): the entry is stored and the call returns.
RegisterPacket(packet_type) ==
  /\ packet_database' = register_packet(packet_database, packet_type)
  /\ reg_type' = packet_type
  /\ reg_before' = packet_database
  /\ reg_result' = "returned"
  /\ UNCHANGED <<connect_vars, overlap_vars, codec_vars, call_vars,
                 link_vars>>

RegistryNext == \E packet_type \in RegistryTypes : RegisterPacket(packet_type)

SpecRegistry == RegistryInit /\ [][RegistryNext]_vars

\* ------------------------------------------------------------------------
\* The overlap specification: two _request_packet calls on one RD200 that
\* are not serialized.  The transport keeps one callback per characteristic:
\* start_notify replaces it, stop_notify clears it.
\* ------------------------------------------------------------------------

\* The commands of the two calls.
OverlapCommands == {Command.MEAS_QUERY, Command.CONFIG_QUERY}

\* The frame the device answers a command with.
DeviceAnswer(command) ==
  IF command = Command.MEAS_QUERY
    THEN << Command.MEAS_QUERY, 16, 0, 0, \H80, \H3F, 0, 0, \H80, \H40,
            0, 0, \H80, \H3F, 3, 0, 1, 0 >>
    ELSE << Command.CONFIG_QUERY, 7, 1, 1, 0, 0, \H80, \H3F, 6 >>

\* What the overlapping calls leave alone.
overlap_rest == <<codec_vars, call_vars, link_vars, connect_vars,
                  registry_vars>>

\* await _request_packet(command, None, timeout) by call c: recv_future is
\* created and start_notify is awaited
OvCall(c, command, timeout) ==
  /\ o_pc[c] = "idle"
  /\ o_pc' = [o_pc EXCEPT ![c] = "rq_start_notify"]
  /\ o_req' = [o_req EXCEPT ![c] = [command |-> command,
                                    timeout |-> timeout]]
  /\ o_future' = [o_future EXCEPT ![c] = NewFuture]
  /\ UNCHANGED <<o_buffer, o_exc, o_result, o_from, meas_slot, inflight>>
  /\ UNCHANGED overlap_rest

\* start_notify(self._meas, meas_callback) of call c returns, its callback
\* now the one the transport holds; or it raises, and the call ends.
OvStartNotify(c) ==
  /\ o_pc[c] = "rq_start_notify"
  /\ \E ok \in TransportOutcomes :
       IF ok
         THEN /\ meas_slot' = c
              /\ o_pc' = [o_pc EXCEPT ![c] = "rq_send_command"]
              /\ UNCHANGED o_result
         ELSE /\ o_pc' = [o_pc EXCEPT ![c] = "failed"]
              /\ o_result' = [o_result EXCEPT ![c] = Raise("BleakError")]
              /\ UNCHANGED meas_slot
  /\ UNCHANGED <<o_req, o_future, o_buffer, o_exc, o_from, inflight>>
  /\ UNCHANGED overlap_rest

\* _send_command(command) of call c returns: the device has the command and
\* owes its answer.  Or it raises, and the finally clause runs.
OvSendCommand(c) ==
  /\ o_pc[c] = "rq_send_command"
  /\ \E ok \in TransportOutcomes :
       IF ok
         THEN /\ inflight' = Append(inflight,
                                    [to |-> c,
                                     frame |-> DeviceAnswer(o_req[c].command)])
              /\ o_pc' = [o_pc EXCEPT ![c] = "rq_wait_for"]
              /\ UNCHANGED o_exc
         ELSE /\ o_pc' = [o_pc EXCEPT ![c] = "rq_stop_notify"]
              /\ o_exc' = [o_exc EXCEPT ![c] = "BleakError"]
              /\ UNCHANGED inflight
  /\ UNCHANGED <<o_req, o_future, o_buffer, o_result, o_from, meas_slot>>
  /\ UNCHANGED overlap_rest

\* wait_for(recv_future, timeout) of call c returns the result.
OvWaitFor(c) ==
  /\ o_pc[c] = "rq_wait_for"
  /\ o_future[c].state = "result"
  /\ o_buffer' = [o_buffer EXCEPT ![c] = o_future[c].data]
  /\ o_pc' = [o_pc EXCEPT ![c] = "rq_stop_notify"]
  /\ UNCHANGED <<o_req, o_future, o_exc, o_result, o_from, meas_slot,
                 inflight>>
  /\ UNCHANGED overlap_rest

\* wait_for's deadline of call c passes.
OvTimeout(c) ==
  /\ o_pc[c] = "rq_wait_for"
  /\ o_req[c].timeout # "None"
  /\ o_future[c].state = "pending"
  /\ o_future' = [o_future EXCEPT ![c].state = "cancelled"]
  /\ o_exc' = [o_exc EXCEPT ![c] = "TimeoutError"]
  /\ o_pc' = [o_pc EXCEPT ![c] = "rq_stop_notify"]
  /\ UNCHANGED <<o_req, o_buffer, o_result, o_from, meas_slot, inflight>>
  /\ UNCHANGED overlap_rest

\* The finally clause of call c: stop_notify(self._meas) clears the callback
\* of the characteristic, whichever call armed it, or raises and is logged.
\* Then the exception propagates or the buffer is parsed and returned.
OvStopNotify(c) ==
  /\ o_pc[c] = "rq_stop_notify"
  /\ \E ok \in TransportOutcomes :
       meas_slot' = IF ok THEN 0 ELSE meas_slot
  /\ LET outcome == IF o_exc[c] # "none" THEN Raise(o_exc[c])
                    ELSE request_parse(o_buffer[c], "None")
     IN  /\ o_result' = [o_result EXCEPT ![c] = outcome]
         /\ o_pc' = [o_pc EXCEPT ![c] =
                       IF outcome.kind = "error" THEN "failed" ELSE "done"]
  /\ UNCHANGED <<o_req, o_future, o_buffer, o_exc, o_from, inflight>>
  /\ UNCHANGED overlap_rest

\* The device delivers its oldest answer on the measurement characteristic.
\* The transport runs the callback it holds, the meas_callback of the call
\* that armed last; with no callback the notification is dropped.
OvNotify ==
  /\ inflight # <<>>
  /\ inflight' = Tail(inflight)
  /\ IF meas_slot = 0
       THEN UNCHANGED <<o_future, o_from>>
       ELSE LET c == meas_slot
                r == meas_callback(o_future[c], Head(inflight).frame)
            IN  /\ o_future' = [o_future EXCEPT ![c] = r.future]
                /\ o_from' = [o_from EXCEPT ![c] =
                                IF FutureDone(o_future[c]) THEN o_from[c]
                                ELSE Head(inflight).to]
  /\ UNCHANGED <<o_pc, o_req, o_buffer, o_exc, o_result, meas_slot>>
  /\ UNCHANGED overlap_rest

OverlapNext ==
  \/ \E c \in Callers, command \in OverlapCommands, timeout \in Timeouts :
       OvCall(c, command, timeout)
  \/ \E c \in Callers : OvStartNotify(c)
  \/ \E c \in Callers : OvSendCommand(c)
  \/ \E c \in Callers : OvWaitFor(c)
  \/ \E c \in Callers : OvTimeout(c)
  \/ \E c \in Callers : OvStopNotify(c)
  \/ OvNotify

SpecOverlap == Init /\ [][OverlapNext]_vars

\* ------------------------------------------------------------------------
\* Properties
\* ------------------------------------------------------------------------

Terminal == pc \in {"done", "failed"}

\* The call in progress armed a listener on char.
Armed(char) ==
  \E i \in DOMAIN calls :
    calls[i].fn = "start_notify" /\ calls[i].char = char /\ calls[i].ok

\* After arming a listener on char, the call in progress invoked stop_notify
\* on it.
StopInvoked(char) ==
  \E i, j \in DOMAIN calls :
    /\ i < j
    /\ calls[i].fn = "start_notify" /\ calls[i].char = char /\ calls[i].ok
    /\ calls[j].fn = "stop_notify" /\ calls[j].char = char

\* The payload _parse_packet cuts from parse_buffer.
ParseData ==
  SubSeq(parse_buffer, 3, Min(2 + parse_buffer[2], Len(parse_buffer)))

\* C1: a _request_packet call with response_type given, whose received frame
\* carries a command code other than response_type.RECV_COMMAND, fails with
\* the wrong-packet-type error (TypeError) and returns no packet.
C1_WrongPacketTypeFails ==
  ( /\ op = "_request_packet"
    /\ Terminal
    /\ req.response_type # "None"
    /\ exc = "none"
    /\ Len(buffer) >= 1
    /\ buffer[1] # RECV_COMMAND[req.response_type] )
  => result = Raise("TypeError")

\* C2: once _request_packet has armed the listener on the measurement
\* characteristic, stop_notify has been invoked on it by the time
\* _request_packet has returned or raised, whatever the exit: response
\* received, timeout, or the write raising.
C2_RequestListenerDisarmed ==
  ( /\ pc \notin {"idle", "rq_start_notify", "rq_send_command",
                  "rq_wait_for", "rq_stop_notify"}
    /\ Armed("meas") )
  => StopInvoked("meas")

\* C2 witness: a request timed out and stop_notify was invoked and returned.
C2_Witness ==
  /\ op = "_request_packet"
  /\ pc = "failed"
  /\ result = Raise("TimeoutError")
  /\ Len(calls) = 3
  /\ calls[3].fn = "stop_notify"
  /\ calls[3].ok

\* C3: once get_log has armed the listener on the log characteristic,
\* stop_notify has been invoked on it by the time get_log has returned or
\* raised: after completion, after the wait timed out, after the write of
\* EEPROM_LOG_DATA_SEND raised.
C3_LogListenerDisarmed ==
  (op = "get_log" /\ Terminal /\ Armed("log")) => StopInvoked("log")

\* C4: within one exchange the first notification delivered fixes the
\* result.  Every later one, and every one delivered after the timeout, is
\* dropped with a warning: it leaves the captured bytes alone and raises
\* nothing into the transport.
C4_FirstNotificationWins ==
  /\ ~cb_raised
  /\ recv_future.state = "result" =>
       (recv_future.data = first_notify /\ warnings = n_notify - 1)
  /\ recv_future.state = "cancelled" => warnings = n_notify
  /\ recv_future.state \in {"none", "pending"} =>
       (n_notify = 0 /\ warnings = 0)
  /\ buffer # <<>> => buffer = first_notify

\* C4 witness: a second notification came in while the first was captured.
C4_Witness ==
  /\ pc = "rq_wait_for"
  /\ recv_future.state = "result"
  /\ n_notify = 2
  /\ warnings = 1

\* The typed accessors, each one request of one record type.
TypedAccessors ==
  { "measurement", "status", "config", "serial", "model_name",
    "firmware_info", "module_config", "module_protection",
    "calibration_factor", "product_process_mode", "log_info" }

\* C5: every call of a typed accessor eventually ends, done or failed; if
\* the device never notifies, it fails with a timeout.
C5_AccessorTerminates ==
  (op \in TypedAccessors /\ pc # "idle") ~> Terminal

\* C6: when get_log completes it returns data_no values, value i being the
\* little-endian unsigned 16-bit integer of bytes 2i and 2i+1 (from 0) of
\* everything delivered on the log characteristic, in delivery order, over
\* 100; the cut into fragments and the bytes past data_no*2 do not matter.
C6_LogDecoded ==
  (op = "get_log" /\ pc = "done") =>
    LET data_no == first_notify[3] + 256 * first_notify[4]
    IN  /\ result.kind = "value"
        /\ Len(result.fields.value) = data_no
        /\ \A i \in 0..(data_no - 1) :
             result.fields.value[i + 1] =
               [num |-> log_stream[2 * i + 1] + 256 * log_stream[2 * i + 2],
                den |-> 100]

\* C6 witness: data_no = 3 and the bytes E8 03 D0 07 64 00 give 10.0, 20.0,
\* 1.0.
C6_Witness ==
  /\ op = "get_log"
  /\ pc = "done"
  /\ first_notify[3] = 3
  /\ log_stream = <<\HE8, \H03, \HD0, \H07, \H64, \H00>>
  /\ result.fields.value =
       << [num |-> 1000, den |-> 100], [num |-> 2000, den |-> 100],
          [num |-> 100, den |-> 100] >>

\* The command codes some RecvPacket class names as its RECV_COMMAND.
RegisteredCodes ==
  { \H50, \H51, \HA4, \HA6, \HA8, \HAC, \HAD, \HAF, \HB1, \HB3, \HBD, \HC1,
    \HE8 }

\* C7: parsing a frame whose command code has no registered descriptor
\* fails and returns no packet, whether the code is no Command member or a
\* member without a registered type.
C7_UnregisteredCodeFails ==
  ( /\ parse_result # Pending
    /\ Len(parse_buffer) >= 1
    /\ parse_buffer[1] \notin RegisteredCodes )
  => parse_result.kind = "error"

\* C7 witness: a well-formed ModuleProtection payload under
\* MOD_PROTECTION_QUERY, which has no registered type, was refused.
C7_Witness ==
  /\ parse_type = "None"
  /\ Len(parse_buffer) = 10
  /\ parse_buffer[1] = \HB4
  /\ parse_buffer[2] = 8
  /\ parse_result = Raise("KeyError")

\* The fixed minimum length of each record type.
MinLength ==
  [ Measurement |-> 16, Status |-> 14, Serial |-> 8, SNType |-> 3,
    ModelName |-> 1, Config |-> 7, OLEDConfig |-> 4, FirmwareInfo |-> 64,
    ModuleConfig |-> 13, ModuleProtection |-> 8, DisplayCalFactor |-> 4,
    ProductProcessMode |-> 4, LogInfo |-> 3 ]

\* C8: decoding a payload shorter than the minimum length of its record
\* type fails and yields no record, also when the frame declares more
\* payload than it carries.
C8_ShortPayloadFails ==
  \A t \in RecvTypeSet :
    ( /\ parse_result # Pending
      /\ Len(parse_buffer) >= 2
      /\ parse_buffer[1] = RECV_COMMAND[t]
      /\ parse_type \in {"None", t}
      /\ Len(ParseData) < MinLength[t] )
    => parse_result.kind = "error"

\* C9: Config decode maps payload byte 0 to a Unit member and payload byte 6
\* to an AlarmInterval member: a 7-byte payload whose unit byte is not 0 or
\* 1, or whose interval byte is not 0x01, 0x06 or 0x24, fails; any other
\* yields the record with exactly the named members.
C9_ConfigDecode ==
  ( /\ parse_result # Pending
    /\ Len(parse_buffer) >= 2
    /\ parse_buffer[1] = \HAC
    /\ parse_type \in {"None", "Config"}
    /\ Len(ParseData) = 7 )
  => LET data == ParseData
     IN  IF data[1] \notin {0, 1} \/ data[7] \notin {\H01, \H06, \H24}
           THEN parse_result.kind = "error"
           ELSE parse_result =
                  Packet("Config",
                         [unit |-> IF data[1] = 0 THEN "PCI_L" ELSE "BQ_M3",
                          alarm_status |-> data[2],
                          alarm_value |->
                            [hi |-> data[5] + 256 * data[6],
                             lo |-> data[3] + 256 * data[4]],
                          alarm_interval |->
                            CASE data[7] = \H01 -> "TEN_MINUTES"
                              [] data[7] = \H06 -> "ONE_HOUR"
                              [] data[7] = \H24 -> "SIX_HOURS"])

\* C9 witness: 01 01 00 00 80 3F 06 gave Config(BQ_M3, 1, 1.0, ONE_HOUR).
C9_Witness ==
  /\ parse_buffer = <<\HAC, 7, \H01, \H01, \H00, \H00, \H80, \H3F, \H06>>
  /\ parse_result =
       Packet("Config",
              [unit |-> "BQ_M3", alarm_status |-> 1,
               alarm_value |-> [hi |-> \H3F80, lo |-> 0],
               alarm_interval |-> "ONE_HOUR"])

C11_ConnectResolvesHandles ==
  /\ conn_result = "True" =>
       (ctl # "None" /\ meas # "None" /\ log # "None")
  /\ conn_result = "False" => Handles = conn_before

\* The call in progress made a transport call fn that raised.
Raised(fn) == \E i \in DOMAIN calls : calls[i].fn = fn /\ ~calls[i].ok

\* C12: when stop_notify raises at the end of _request_packet, the caller
\* sees what it would have seen otherwise: the error of the write when the
\* write failed, TimeoutError when the exchange timed out, and what decoding
\* the received bytes gives when the response was received.
C12_DisarmErrorHidden ==
  (op = "_request_packet" /\ Terminal /\ Raised("stop_notify")) =>
    result = IF Raised("write_gatt_char") THEN Raise("BleakError")
             ELSE IF recv_future.state = "cancelled"
               THEN Raise("TimeoutError")
             ELSE parse_packet(first_notify, "None")

\* C12 witness: the response was received, stop_notify raised and the
\* caller got the record.
C12_Witness ==
  /\ op = "_request_packet"
  /\ pc = "done"
  /\ Raised("stop_notify")
  /\ result.kind = "packet"
  /\ result = parse_packet(first_notify, "None")

\* C13: registering a packet type whose RECV_COMMAND is already in the
\* registry fails and leaves the registry as it was.
C13_DuplicateRegistrationFails ==
  (reg_type # "none" /\ RECV_COMMAND[reg_type] \in DOMAIN reg_before) =>
    (reg_result = "raised" /\ packet_database = reg_before)

\* C14: a command written by _send_command directly follows the arming,
\* completed, of the listener of its exchange: on the measurement
\* characteristic in _request_packet, on the log characteristic in get_log.
\* When the arming raises, nothing is written after it.
C14_ArmedBeforeWrite ==
  \A j \in DOMAIN calls :
    /\ (calls[j].fn = "write_gatt_char" /\ calls[j].by = "_send_command") =>
         /\ j > 1
         /\ calls[j - 1].fn = "start_notify"
         /\ calls[j - 1].ok
         /\ \/ /\ calls[j - 1].by = "_request_packet"
               /\ calls[j - 1].char = "meas"
            \/ /\ calls[j - 1].by = "get_log"
               /\ calls[j - 1].char = "log"
               /\ calls[j].frame = <<Command.EEPROM_LOG_DATA_SEND>>
    /\ (calls[j].fn = "start_notify" /\ ~calls[j].ok) => j = Len(calls)

\* C14 witness: get_log wrote EEPROM_LOG_DATA_SEND after arming the log
\* listener, having written the LogInfo query after arming the response
\* listener.
C14_Witness ==
  /\ op = "get_log"
  /\ pc = "gl_wait_for"
  /\ Len(calls) = 5
  /\ calls[1].fn = "start_notify" /\ calls[1].char = "meas"
  /\ calls[2].frame = <<Command.EEPROM_LOG_INFO_QUERY>>
  /\ calls[4].fn = "start_notify" /\ calls[4].char = "log"
  /\ calls[5].frame = <<Command.EEPROM_LOG_DATA_SEND>>

\* How many times the call in progress has called fn of the transport.
Count(fn) == Cardinality({i \in DOMAIN calls : calls[i].fn = fn})

\* C15: one call of _request_packet writes to the control characteristic at
\* most once and arms the response listener at most once, however it ends.
C15_NoRetry ==
  op = "_request_packet" =>
    (Count("write_gatt_char") <= 1 /\ Count("start_notify") <= 1)

\* C15 witness: a request that timed out has armed once, written once and
\* disarmed.
C15_Witness ==
  /\ op = "_request_packet"
  /\ pc = "failed"
  /\ recv_future.state = "cancelled"
  /\ Count("write_gatt_char") = 1
  /\ Count("start_notify") = 1
  /\ Count("stop_notify") = 1

\* C16: with the calls made one after the other, a listener is armed on a
\* characteristic only when none is armed on it: the response and the log
\* characteristic each have at most one listener at any time.
C16_OneListenerPerChannel ==
  [][ /\ (meas_notify # "armed" /\ meas_notify' = "armed") =>
           meas_notify = "none"
      /\ (log_notify # "armed" /\ log_notify' = "armed") =>
           log_notify = "none" ]_vars

\* C17: get_log's completion is signalled whenever the accumulated buffer
\* has at least data_no*2 bytes, so get_log never raises TimeoutError with
\* that many bytes accumulated; with data_no = 0 it returns the empty list
\* without a fragment.
C17_CompleteWhenEnough ==
  /\ (op = "get_log" /\ pc = "gl_wait_for"
        /\ Len(log_buffer) >= log_buffer_len) => log_buffer_done
  /\ (op = "get_log" /\ result = Raise("TimeoutError")) =>
       Len(log_buffer) < log_buffer_len

\* C18: an exchange of _request_packet is resolved only by a notification
\* delivered after its command was written: while the write has not been
\* issued, recv_future is pending, whatever was delivered since the arming.
C18_ResolvedAfterWrite ==
  pc = "rq_send_command" => recv_future.state = "pending"

\* C19: every call of get_log(timeout), timeout finite, eventually ends,
\* done or failed, whatever the device does.
C19_GetLogTerminates ==
  (op = "get_log" /\ pc # "idle") ~> Terminal

\* C20: of two overlapping _request_packet calls, neither returns a record
\* decoded from the answer to the other's command, and a call that is
\* waiting for its answer is not left without a listener by the other
\* call's disarming.
C20_OverlapIsolated ==
  \A c \in Callers :
    /\ o_pc[c] = "done" => o_from[c] = c
    /\ (o_pc[c] = "rq_wait_for" /\ o_future[c].state = "pending") =>
         meas_slot # 0

\* The writes of the call in progress made by fn.
WritesBy(fn) ==
  { i \in DOMAIN calls :
      calls[i].fn = "write_gatt_char" /\ calls[i].by = fn }

\* An argument of the alarm call in progress was left out.
AlarmOmitted ==
  ~args.enabled.some \/ ~args.value.some \/ ~args.interval.some

\* The payload of the frame the exchange in progress received.
ReceivedData ==
  SubSeq(buffer, 3, Min(2 + buffer[2], Len(buffer)))

\* The exchange in progress received a frame that decodes to a Config.
ReceivedConfig ==
  /\ Len(buffer) >= 2
  /\ buffer[1] = \HAC
  /\ Len(ReceivedData) = 7
  /\ ReceivedData[1] \in {0, 1}
  /\ ReceivedData[7] \in {\H01, \H06, \H24}

\* The BLE_WARNING_SET frame alarm owes: each argument as given (a bool as
\* 0 or 1, the value as its four float32 bytes, the interval as its code),
\* each omitted one from the Config received (alarm_status as 0 or 1).
AlarmFrame ==
  LET status ==
        IF args.enabled.some THEN (IF args.enabled.v THEN 1 ELSE 0)
        ELSE (IF ReceivedData[2] # 0 THEN 1 ELSE 0)
      value ==
        IF args.value.some
          THEN << args.value.v.lo % 256, args.value.v.lo \div 256,
                  args.value.v.hi % 256, args.value.v.hi \div 256 >>
          ELSE SubSeq(ReceivedData, 3, 6)
      interval ==
        IF args.interval.some
          THEN CASE args.interval.v = "TEN_MINUTES" -> \H01
                 [] args.interval.v = "ONE_HOUR"    -> \H06
                 [] args.interval.v = "SIX_HOURS"   -> \H24
          ELSE ReceivedData[7]
  IN  <<\HAA, 6, status>> \o value \o <<interval>>

\* C21: alarm(enabled, value, interval) writes one BLE_WARNING_SET frame,
\* never two, and has written it when it returns; the frame carries each
\* supplied argument as given and each omitted one from the Config the
\* device sent.  With all three supplied the write is the only transport
\* call; with one omitted the write follows exactly one exchange of
\* CONFIG_QUERY (listener armed, query written, Config received), and when
\* that exchange fails nothing is written.
C21_AlarmWritesOneFrame ==
  op = "alarm" =>
    /\ Cardinality(WritesBy("_send_packet")) <= 1
    /\ pc = "done" => Cardinality(WritesBy("_send_packet")) = 1
    /\ \A i \in WritesBy("_send_packet") : calls[i].frame = AlarmFrame
    /\ ~AlarmOmitted =>
         \A i \in DOMAIN calls : calls[i].by = "_send_packet"
    /\ AlarmOmitted =>
         /\ Cardinality(WritesBy("_send_command")) <= 1
         /\ \A i \in WritesBy("_send_packet") :
              /\ ReceivedConfig
              /\ \E a, q \in 1..(i - 1) :
                   /\ a < q
                   /\ calls[a].fn = "start_notify" /\ calls[a].ok
                   /\ q \in WritesBy("_send_command")
                   /\ calls[q].frame = <<\HAC>>
                   /\ calls[q].ok
         /\ (pc = "failed" /\ ~ReceivedConfig) =>
              WritesBy("_send_packet") = {}

\* C21 witness: alarm(enabled=False) read Config(PCI_L, 2, 4.0, SIX_HOURS)
\* and wrote AA 06 00 00 00 80 40 24.
C21_Witness ==
  /\ op = "alarm"
  /\ pc = "done"
  /\ args.enabled = Some(FALSE)
  /\ ~args.value.some
  /\ ~args.interval.some
  /\ buffer = <<\HAC, 7, 0, 2, 0, 0, \H80, \H40, \H24>>
  /\ \E i \in DOMAIN calls :
       /\ calls[i].by = "_send_packet"
       /\ calls[i].ok
       /\ calls[i].frame = <<\HAA, 6, 0, 0, 0, \H80, \H40, \H24>>

\* The status a FirmwareInfo payload of at least 64 bytes carries: the
\* little-endian unsigned 32-bit value of bytes 64..67 (from 0) when it has
\* at least 68 bytes, 0 otherwise.
FirmwareStatus(data) ==
  IF Len(data) >= 68
    THEN [hi |-> data[67] + 256 * data[68], lo |-> data[65] + 256 * data[66]]
    ELSE [hi |-> 0, lo |-> 0]

\* A FirmwareInfo payload of at least 64 bytes has been decoded.
FirmwareDecoded ==
  /\ parse_result # Pending
  /\ Len(parse_buffer) >= 2
  /\ parse_buffer[1] = \HAF
  /\ parse_type \in {"None", "FirmwareInfo"}
  /\ Len(ParseData) >= 64

\* C22, as claimed: FirmwareInfo decode of every payload of at least 64
\* bytes yields a record whose status is the little-endian unsigned 32-bit
\* value of payload bytes 64..67 when the payload has at least 68 bytes and
\* 0 when it has 64 to 67, and whose version is the first 64 bytes only.
C22_EveryPayloadDecodes ==
  FirmwareDecoded =>
    /\ parse_result.kind = "packet"
    /\ parse_result.type = "FirmwareInfo"
    /\ parse_result.fields.status = FirmwareStatus(ParseData)
    /\ Len(parse_result.fields.version) <= 64

\* C22, amended: FirmwareInfo decode of a payload of at least 64 bytes
\* whose first 64 bytes are ASCII yields the record whose version is those
\* 64 bytes and whose status is the little-endian unsigned 32-bit value of
\* payload bytes 64..67 when the payload has at least 68 bytes and 0 when
\* it has 64 to 67.  When the first 64 bytes are not ASCII the decode is
\* that of UTF-8: it fails with UnicodeDecodeError when they are no valid
\* UTF-8 text on their own, whatever follows them, and any record it yields
\* has the status above.
C22_FirmwareInfoDecode ==
  FirmwareDecoded =>
    LET data == ParseData
    IN  IF \A i \in 1..64 : data[i] < \H80
          THEN parse_result =
                 Packet("FirmwareInfo",
                        [version |-> SubSeq(data, 1, 64),
                         status |-> FirmwareStatus(data)])
          ELSE \/ parse_result = Raise("UnicodeDecodeError")
               \/ /\ parse_result.kind = "packet"
                  /\ parse_result.type = "FirmwareInfo"
                  /\ parse_result.fields.status = FirmwareStatus(data)

\* C22 witness: "V1.2.6" padded to 64 bytes, then 01 02 03 04 05, decoded to
\* the 64-character version and the status 0x04030201.
C22_Witness ==
  /\ Len(parse_buffer) = 71
  /\ parse_buffer[1] = \HAF
  /\ parse_buffer[2] = 69
  /\ SubSeq(parse_buffer, 67, 71) = <<1, 2, 3, 4, 5>>
  /\ parse_result.kind = "packet"
  /\ parse_result.fields.version = FirmwareVersion
  /\ parse_result.fields.status = [hi |-> \H0403, lo |-> \H0201]

====
